---- MODULE Spec2Model ----
(***************************************************************************)
(* A model of domino's contrastive training code:                          *)
(*   src/domino/vision_ks.py  Classifier.training_step and train()         *)
(*   src/domino/cnc.py        load_contrastive_dp, contrastive_loader and  *)
(*                            SupervisedContrastiveLoss                    *)
(*                                                                         *)
(* Five specifications share the module's variables:                       *)
(*   Spec         one call of Classifier.training_step on a mini-batch     *)
(*   SpecTrain    train(): the call, the group ids, the per-group names    *)
(*   SpecSampler  train(): the robust sampler's draw weights               *)
(*   SpecCnC      load_contrastive_dp and the lazy contrastive_loader      *)
(*   SpecLoss     SupervisedContrastiveLoss: construction and forward      *)
(* Each specification leaves the variables of the others at their idle     *)
(* values.                                                                 *)
(*                                                                         *)
(* Numbers.  Tensor values are modelled by exact integers and rationals    *)
(* (a rational is a record [num, den] with den > 0); floating-point        *)
(* rounding is not modelled.  Sequences are 1-based: the code's a_ix = k   *)
(* is a_ix = k + 1 here.                                                   *)
(***************************************************************************)
EXTENDS Integers, Sequences, FiniteSets, TLC

\* ------------------------------------------------------------------ bounds
\* largest mini-batch (number of anchors) of a training step, the batches of
\* SmallestContrastBatch examples apart
MaxBatch == 4
\* gaze feature vectors lie at 0..MaxFeat along the first feature axis
MaxFeat == 1
\* torch.rand_like draws are modelled by the ranks 0..MaxRand
MaxRand == 1
\* the opaque classification loss is one of 0..MaxLoss
MaxLoss == 1
\* the encoder (an nn.Sequential) has 1..MaxChildren child modules
MaxChildren == 3
\* config["dataset"]["subgroup_columns"] names 0..MaxSubgroups columns
MaxSubgroups == 2
\* the data panel handed to train() has 1..MaxRows rows
MaxRows == 2
\* the training split has 1..MaxTrain rows (or is the 90/10 example)
MaxTrain == 3
\* reweight_class_alpha is one of 0..MaxAlpha
MaxAlpha == 2
\* the panel given to load_contrastive_dp has 1..MaxCncRows rows
MaxCncRows == 4
\* its group ids are -1..MaxGroupId
MaxGroupId == 4
\* num_positive and num_negative are 1..MaxNum
MaxNum == 2
\* the temperature is one of -MaxTemp..MaxTemp, in units of 1 / TempDen
MaxTemp == 2
\* a forward call is given 1..MaxCompanions positives and as many negatives
MaxCompanions == 2

\* ------------------------------------------------------- program constants
\* the four gaze features stacked by train()
GazeDim == 4
\* `if p_mask.sum() < 2 or n_mask.sum() < 2: continue`
MinCompanions == 2
\* contrastive_weight is modelled in halves: cw / CwDen in {0, 1/2, 1}
CwDen == 2
\* train(..., num_classes: int = 2, ...): the target labels are 0 and 1
NumClasses == 2
\* temperatures are modelled in halves
TempDen == 2

\* ============================================================== variables
\* one training step (Classifier.training_step)
VARIABLES
  method,           \* config["train"]["method"]
  a_targets,        \* batch["target"]
  gaze_features,    \* batch["gaze_features"]
  contrastive_input_pair, \* batch["contrastive_input_pair"] (cnc only)
  p_inputs,         \* the locals p_inputs, n_inputs, p_targets, n_targets
  n_inputs,         \* (<<>> while unbound)
  p_targets,
  n_targets,
  inputs,           \* what the classification pass at line 353 is run on
  targets,          \* and the targets of its loss at line 358
  pc,               \* "idle" | "loop" | "selected" | "done" | "raised"
  a_ix,             \* the anchor the loop is at (1-based; Len + 1 after the loop)
  gfeat_dist,       \* distances computed for the anchor examined last
  alpha,            \* threshold computed for the anchor examined last
  p_mask,           \* positive set of the anchor examined last
  n_mask,           \* negative set of the anchor examined last
  skipped,          \* anchors the loop left by `continue`
  contrastive_loss, \* running sum, then the per-anchor mean (a rational)
  pos_sim,          \* likewise
  neg_sim,          \* likewise
  grad,             \* grad[i]: how often anchor i's loss gradient was accumulated
  encoder_calls,    \* calls of self.encoder made by the loss engine
  backward_calls,   \* c_loss.backward() calls
  err,              \* "none" or the exception that ended the step
  cw,               \* contrastive_weight of the config, in units of 1 / CwDen
  cls_loss,         \* the classification loss computed at line 358
  loss,             \* the value training_step returns (a rational)
  loss_graph        \* the terms of `loss` that carry a computation graph

stepVars == <<method, a_targets, gaze_features, pc, a_ix, gfeat_dist, alpha,
              p_mask, n_mask, skipped, contrastive_loss, pos_sim, neg_sim,
              grad, encoder_calls, backward_calls, err, cw, cls_loss, loss,
              loss_graph, contrastive_input_pair, p_inputs, n_inputs,
              p_targets, n_targets, inputs, targets>>

\* the companions bound for the anchor at hand, and the classification pass
companionVars == <<p_inputs, n_inputs, p_targets, n_targets>>
passVars == <<inputs, targets>>

\* train(): the call, its group ids and names
VARIABLES
  model,            \* the `model` argument: "None" or "given"
  config,           \* the `config` argument: "None" or "given"
  gaze_split,       \* config["train"]["gaze_split"]
  subgroup_columns, \* len(config["dataset"]["subgroup_columns"])
  dp,               \* the rows: [target, attrs], attrs one float per subgroup column
  group_ids,        \* the group_id column (line 532)
  group_str,        \* subgroup_columns_: the name of group i at index i + 1
  config_written,   \* the keys train() has written into the caller's config
  model_built,      \* train() has constructed a Classifier
  terr,             \* "none" or the exception train() ended with
  tpc               \* "idle" | "entry" | "start" | "grouped" | "panel" | "named"
                    \* | "configured" | "checked" | "built" | "raised"

trainVars == <<model, config, gaze_split, subgroup_columns, dp, group_ids,
               group_str, config_written, model_built, terr, tpc>>

\* train(): robust sampler
VARIABLES
  n_groups,             \* len(subgroup_columns_)
  train_group_id,       \* train_dp["group_id"]
  reweight_class_alpha, \* config["train"]["loss"]["reweight_class_alpha"]
  weights,              \* the sampler's weight of every row of train_dp
  spc                   \* "idle" | "start" | "weighted"

samplerVars == <<n_groups, train_group_id, reweight_class_alpha, weights, spc>>

\* load_contrastive_dp and contrastive_loader
VARIABLES
  cnc_group_id,       \* dp["group_id"] of the panel given to load_contrastive_dp
  num_p,              \* cnc_config["num_positive"]
  num_n,              \* cnc_config["num_negative"]
  positive_entries_0, \* the rows of the four strata (lines 27-30)
  negative_entries_0,
  positive_entries_3,
  negative_entries_3,
  contrastive_dp,     \* the rows of dp[majority_mask], in order
  anchor,             \* the row whose "contrastive_pair" was read last (0: none)
  positive_entry,     \* the rows drawn for it
  negative_entry,
  cerr,               \* "none" or the exception the read ended with
  cpc                 \* "idle" | "start" | "loaded"

cncVars == <<cnc_group_id, num_p, num_n, positive_entries_0,
             negative_entries_0, positive_entries_3, negative_entries_3,
             contrastive_dp, anchor, positive_entry, negative_entry, cerr, cpc>>

\* SupervisedContrastiveLoss
VARIABLES
  temperature,  \* config["temperature"], in units of 1 / TempDen
  constructed,  \* a SupervisedContrastiveLoss object exists
  sim_pos,      \* the cosine similarities of the last forward call
  sim_neg,
  pos_logit,    \* pos_sim / temperature and neg_sim / temperature
  neg_logit,
  loss_mean,    \* the loss.mean() the last forward call returned
  lerr,         \* "none" or the exception the last call ended with
  lpc           \* "idle" | "config" | "ready" | "computed"

lossVars == <<temperature, constructed, sim_pos, sim_neg, pos_logit, neg_logit,
              loss_mean, lerr, lpc>>

\* what the actions of one component leave alone
notStepVars == <<trainVars, samplerVars, cncVars, lossVars>>
notTrainVars == <<stepVars, samplerVars, cncVars, lossVars>>
notSamplerVars == <<stepVars, trainVars, cncVars, lossVars>>
notCncVars == <<stepVars, trainVars, samplerVars, lossVars>>
notLossVars == <<stepVars, trainVars, samplerVars, cncVars>>

\* ---------------------------------------------------------------- helpers
Range(s) == {s[i] : i \in DOMAIN s}

RECURSIVE SumSeq(_)
SumSeq(s) == IF s = <<>> THEN 0 ELSE Head(s) + SumSeq(Tail(s))

\* rationals
Rat(n, d) == [num |-> n, den |-> d]
RInt(n) == Rat(n, 1)
RAdd(a, b) == Rat(a.num * b.den + b.num * a.den, a.den * b.den)
RMul(a, b) == Rat(a.num * b.num, a.den * b.den)
RDivInt(a, n) == Rat(a.num, a.den * n)
REq(a, b) == a.num * b.den = b.num * a.den
RLess(a, b) == a.num * b.den < b.num * a.den


Methods == {"cnc", "cnc_gaze", "randcon"}

\* what a call can end with instead of a value
Exceptions == {"ValueError", "AttributeError", "TypeError"}

\* a gaze feature vector at position k of the first axis
GazeVector(k) == [d \in 1..GazeDim |-> IF d = 1 THEN k ELSE 0]
GazeVectors == {GazeVector(k) : k \in 0..MaxFeat}

\* ---------------------------------------------- training step: operators
\* torch.norm(v): the Euclidean norm (exact on the vectors of GazeVectors)
Norm(v) ==
  LET sq == SumSeq([d \in 1..Len(v) |-> v[d] * v[d]])
  IN CHOOSE r \in 0..sq : r * r = sq

\* torch.norm(gaze_features - a_gfeats, dim=1)
GfeatDist(feats, ix) ==
  [i \in 1..Len(feats) |->
     Norm([d \in 1..Len(feats[i]) |-> feats[i][d] - feats[ix][d]])]

RECURSIVE Insert(_, _)
Insert(x, s) ==
  IF s = <<>> THEN <<x>>
  ELSE IF x <= Head(s) THEN <<x>> \o s
  ELSE <<Head(s)>> \o Insert(x, Tail(s))

RECURSIVE Sort(_)
Sort(s) == IF s = <<>> THEN <<>> ELSE Insert(Head(s), Sort(Tail(s)))

\* a wrong median: the upper of the two middle values
MedianUpper(d) == Sort(d)[(Len(d) \div 2) + 1]

\* Tensor.median(): the lower of the two middle values of the sorted tensor
Median(d) == Sort(d)[((Len(d) - 1) \div 2) + 1]

\* a_targets == a_targets[a_ix]
SameClass(tgts, ix) == {i \in 1..Len(tgts) : tgts[i] = tgts[ix]}

\* torch.logical_and(gfeat_dist > alpha, same_class)
NMask(dist, thr, tgts, ix) ==
  {i \in 1..Len(dist) : dist[i] > thr /\ i \in SameClass(tgts, ix)}

\* a wrong positive mask: the anchor is not removed
PMaskWithAnchor(dist, thr, tgts, ix) ==
  {i \in 1..Len(dist) : dist[i] <= thr /\ i \in SameClass(tgts, ix)}

\* torch.logical_and(gfeat_dist <= alpha, same_class); p_mask[a_ix] = False
PMask(dist, thr, tgts, ix) ==
  {i \in 1..Len(dist) : dist[i] <= thr /\ i \in SameClass(tgts, ix)} \ {ix}

\* a wrong skip test: one companion of each kind is enough
InsufficientOne(p, n) == Cardinality(p) < 1 \/ Cardinality(n) < 1

\* p_mask.sum() < 2 or n_mask.sum() < 2
Insufficient(p, n) ==
  Cardinality(p) < MinCompanions \/ Cardinality(n) < MinCompanions

\* the outcome of a call: the exception raised ("none" when it returns) and the
\* number of values the result unpacks to (0 for a 0-d tensor)
Raised(e) == [raised |-> e, values |-> 0]
Returned(n) == [raised |-> "none", values |-> n]

\* SupervisedContrastiveLoss.forward(encoder, contrastive_batch), by the kind of
\* its arguments.  An argument is a "tuple" of tensors or a "module" (an
\* nn.Sequential, iterable over its children), of length len.
Forward(encoder, contrastive_batch) ==
  IF contrastive_batch.len # 3
  THEN Raised("ValueError")          \* line 121: unpacking into three names
  ELSE IF contrastive_batch.kind = "module"
  THEN Raised("AttributeError")      \* line 123: a_input.unsqueeze on a Module
  ELSE IF encoder.kind # "module"
  THEN Raised("TypeError")           \* line 123: calling a tuple
  ELSE Returned(0)                   \* line 139: loss.mean(), a 0-d tensor

\* the trainer's call at lines 274-276: the batch tuple is passed first and the
\* encoder second, and three values are unpacked from the result
CallContrastiveLoss(children) ==
  LET r == Forward([kind |-> "tuple", len |-> 3],
                   [kind |-> "module", len |-> children])
  IN IF r.raised = "none" /\ r.values # 3
     THEN Raised("TypeError")        \* a 0-d tensor cannot be unpacked
     ELSE r

\* An input tensor is named by where the batch holds it: <<"a", i, 0>> is
\* batch["input"][i], <<"p", i, k>> and <<"n", i, k>> are the k-th positive and
\* negative of anchor i in batch["contrastive_input_pair"].
AInputs(a_tgts) == [i \in DOMAIN a_tgts |-> <<"a", i, 0>>]

\* the other one of the two labels
OtherLabel(y) == (NumClasses - 1) - y

\* batch["contrastive_input_pair"] under cnc, np positives and nn negatives per
\* anchor: the data loader drew the positives from a group of the anchor's
\* label and the negatives from a group of the other label (cnc.py 21-30)
ContrastiveInputPair(a_tgts, np, nn) ==
  [all_p_inputs |-> [i \in DOMAIN a_tgts |-> [k \in 1..np |-> <<"p", i, k>>]],
   all_n_inputs |-> [i \in DOMAIN a_tgts |-> [k \in 1..nn |-> <<"n", i, k>>]],
   all_p_targets |-> [i \in DOMAIN a_tgts |-> [k \in 1..np |-> a_tgts[i]]],
   all_n_targets |-> [i \in DOMAIN a_tgts |->
                        [k \in 1..nn |-> OtherLabel(a_tgts[i])]]]

\* the batch of the other methods has no such entry
NoInputPair ==
  [all_p_inputs |-> <<>>, all_n_inputs |-> <<>>,
   all_p_targets |-> <<>>, all_n_targets |-> <<>>]

\* t[mask]: the rows of t the mask keeps, in order
RECURSIVE MaskedSelect(_, _)
MaskedSelect(t, mask) ==
  IF t = <<>> THEN <<>>
  ELSE MaskedSelect(SubSeq(t, 1, Len(t) - 1), mask)
         \o (IF Len(t) \in mask THEN <<t[Len(t)]>> ELSE <<>>)

\* a wrong blend: the classification term is not scaled by 1 - cw
BlendUnscaled(w, cls, con) == RAdd(RInt(cls), RMul(Rat(w, CwDen), con))

\* loss = (1 - cw) * loss + cw * contrastive_loss
Blend(w, cls, con) ==
  RAdd(RMul(Rat(CwDen - w, CwDen), RInt(cls)), RMul(Rat(w, CwDen), con))

\* ------------------------------------------------- training step: actions
StepIdle ==
  /\ method = "none" /\ a_targets = <<>> /\ gaze_features = <<>>
  /\ pc = "idle" /\ a_ix = 0 /\ gfeat_dist = <<>> /\ alpha = 0
  /\ p_mask = {} /\ n_mask = {} /\ skipped = {}
  /\ contrastive_loss = RInt(0) /\ pos_sim = RInt(0) /\ neg_sim = RInt(0)
  /\ grad = <<>> /\ encoder_calls = 0 /\ backward_calls = 0
  /\ err = "none" /\ cw = 0 /\ cls_loss = 0 /\ loss = RInt(0)
  /\ loss_graph = {}
  /\ contrastive_input_pair = NoInputPair
  /\ p_inputs = <<>> /\ n_inputs = <<>> /\ p_targets = <<>> /\ n_targets = <<>>
  /\ inputs = <<>> /\ targets = <<>>

\* the mini-batch of the feature-proximity example of the specification: four
\* same-label examples at distances 0, 1, 2, 3 from the first one
ProximityExampleTargets == <<1, 1, 1, 1>>
ProximityExampleFeatures == [i \in 1..4 |-> GazeVector(i - 1)]

\* the size of the smallest mini-batch in which an anchor can have enough
\* companions under cnc_gaze: the anchor, and MinCompanions of each kind
SmallestContrastBatch == 2 * MinCompanions + 1

\* the mini-batches a step is entered with (drop_last keeps them non-empty):
\* those of up to MaxBatch examples, those of SmallestContrastBatch examples
\* and the example batch
Batches ==
  UNION {[1..n -> 0..1] \X [1..n -> GazeVectors] :
           n \in (1..MaxBatch) \cup {SmallestContrastBatch}}
    \cup {<<ProximityExampleTargets, ProximityExampleFeatures>>}

\* entry of training_step (lines 227-242).  The gaze features are read under
\* cnc_gaze only (randcon overwrites the distances, cnc never reads them), so
\* the other methods are entered with every feature vector at the origin.
StepInit ==
  /\ method \in Methods
  /\ \E b \in Batches :
       /\ a_targets = b[1]
       /\ gaze_features = b[2]
       /\ method # "cnc_gaze" => \A i \in DOMAIN b[2] : b[2][i] = GazeVector(0)
       /\ grad = [i \in DOMAIN b[1] |-> 0]
       /\ IF method = "cnc"
          THEN \E np \in 1..MaxNum, nn \in 1..MaxNum :
                  contrastive_input_pair = ContrastiveInputPair(b[1], np, nn)
          ELSE contrastive_input_pair = NoInputPair
  /\ pc = "loop" /\ a_ix = 1
  /\ gfeat_dist = <<>> /\ alpha = 0 /\ p_mask = {} /\ n_mask = {}
  /\ skipped = {}
  /\ contrastive_loss = RInt(0) /\ pos_sim = RInt(0) /\ neg_sim = RInt(0)
  /\ encoder_calls = 0 /\ backward_calls = 0
  /\ err = "none" /\ cw \in 0..CwDen /\ cls_loss = 0 /\ loss = RInt(0)
  /\ loss_graph = {}
  /\ p_inputs = <<>> /\ n_inputs = <<>> /\ p_targets = <<>> /\ n_targets = <<>>
  /\ inputs = <<>> /\ targets = <<>>

\* lines 256-264, given the distances of the anchor at a_ix
SelectCompanions(dist) ==
  LET thr == Median(dist) IN
  /\ gfeat_dist' = dist
  /\ alpha' = thr
  /\ n_mask' = NMask(dist, thr, a_targets, a_ix)
  /\ p_mask' = PMask(dist, thr, a_targets, a_ix)
  /\ pc' = "selected"
  /\ UNCHANGED <<method, a_targets, gaze_features, a_ix, skipped,
                 contrastive_loss, pos_sim, neg_sim, grad, encoder_calls,
                 backward_calls, err, cw, cls_loss, loss, loss_graph,
                 contrastive_input_pair, companionVars, passVars>>

\* lines 244-248: under cnc the anchor's tuple was sampled by the data loader
SelectCnc ==
  /\ UNCHANGED notStepVars
  /\ pc = "loop" /\ a_ix <= Len(a_targets) /\ method = "cnc"
  /\ p_inputs' = contrastive_input_pair.all_p_inputs[a_ix]
  /\ n_inputs' = contrastive_input_pair.all_n_inputs[a_ix]
  /\ p_targets' = contrastive_input_pair.all_p_targets[a_ix]
  /\ n_targets' = contrastive_input_pair.all_n_targets[a_ix]
  /\ pc' = "selected"
  /\ UNCHANGED <<method, a_targets, gaze_features, a_ix, gfeat_dist, alpha,
                 p_mask, n_mask, skipped, contrastive_loss, pos_sim, neg_sim,
                 grad, encoder_calls, backward_calls, err, cw, cls_loss, loss,
                 loss_graph, contrastive_input_pair, passVars>>

\* lines 250-264 under cnc_gaze
SelectGaze ==
  /\ UNCHANGED notStepVars
  /\ pc = "loop" /\ a_ix <= Len(a_targets) /\ method = "cnc_gaze"
  /\ SelectCompanions(GfeatDist(gaze_features, a_ix))

\* lines 250-264 under randcon: the distances are torch.rand_like draws
SelectRandcon ==
  /\ UNCHANGED notStepVars
  /\ pc = "loop" /\ a_ix <= Len(a_targets) /\ method = "randcon"
  /\ \E rnd \in [1..Len(a_targets) -> 0..MaxRand] : SelectCompanions(rnd)

\* lines 266-267: `continue`.  The anchor's distances and masks are dead from
\* here on (the next iteration overwrites them) and are cleared.
SkipAnchor ==
  /\ UNCHANGED notStepVars
  /\ pc = "selected" /\ method \in {"cnc_gaze", "randcon"}
  /\ Insufficient(p_mask, n_mask)
  /\ a_ix' = a_ix + 1
  /\ skipped' = skipped \cup {a_ix}
  /\ pc' = "loop"
  /\ gfeat_dist' = <<>> /\ alpha' = 0 /\ p_mask' = {} /\ n_mask' = {}
  /\ UNCHANGED <<method, a_targets, gaze_features, contrastive_loss, pos_sim,
                 neg_sim, grad, encoder_calls, backward_calls, err, cw,
                 cls_loss, loss, loss_graph, contrastive_input_pair,
                 companionVars, passVars>>

\* lines 269-283: the companions of a feature-proximity or random-control
\* anchor, then the anchor's loss, its backward pass and the running sums
Contrast ==
  /\ UNCHANGED notStepVars
  /\ pc = "selected"
  /\ method = "cnc" \/ ~Insufficient(p_mask, n_mask)
  /\ IF method = "cnc"
     THEN UNCHANGED companionVars
     ELSE /\ p_inputs' = MaskedSelect(AInputs(a_targets), p_mask)
          /\ p_targets' = MaskedSelect(a_targets, p_mask)
          /\ n_inputs' = MaskedSelect(AInputs(a_targets), n_mask)
          /\ n_targets' = MaskedSelect(a_targets, n_mask)
  /\ \E children \in 1..MaxChildren :
       LET r == CallContrastiveLoss(children) IN
       IF r.raised \in Exceptions
       THEN /\ pc' = "raised" /\ err' = r.raised
            /\ UNCHANGED <<a_ix, gfeat_dist, alpha, p_mask, n_mask,
                           contrastive_loss, pos_sim, neg_sim, grad,
                           encoder_calls, backward_calls>>
       ELSE /\ pc' = "loop" /\ a_ix' = a_ix + 1
            /\ gfeat_dist' = <<>> /\ alpha' = 0 /\ p_mask' = {} /\ n_mask' = {}
            /\ encoder_calls' = encoder_calls + 3
            /\ backward_calls' = backward_calls + 1
            /\ grad' = [grad EXCEPT ![a_ix] = @ + 1]
            /\ \E c \in 0..MaxLoss :
                 contrastive_loss' = RAdd(contrastive_loss, RInt(c))
            /\ \E sp \in -1..1 : pos_sim' = RAdd(pos_sim, RInt(sp))
            /\ \E sn \in -1..1 : neg_sim' = RAdd(neg_sim, RInt(sn))
            /\ UNCHANGED err
  /\ UNCHANGED <<method, a_targets, gaze_features, skipped, cw, cls_loss, loss,
                 loss_graph, contrastive_input_pair, passVars>>

\* after the loop: lines 285-294 and 352-386
FinishStep ==
  /\ UNCHANGED notStepVars
  /\ pc = "loop" /\ a_ix = Len(a_targets) + 1
  /\ \E cls \in 0..MaxLoss :
       LET con == RDivInt(contrastive_loss, Len(a_targets)) IN
       /\ contrastive_loss' = con
       /\ pos_sim' = RDivInt(pos_sim, Len(a_targets))
       /\ neg_sim' = RDivInt(neg_sim, Len(a_targets))
       /\ cls_loss' = cls
       /\ loss' = Blend(cw, cls, con)
       /\ loss_graph' = {"classification"}
  /\ IF method = "cnc"
     THEN /\ inputs' = AInputs(a_targets) \o p_inputs \o n_inputs
          /\ targets' = a_targets \o p_targets \o n_targets
     ELSE /\ inputs' = AInputs(a_targets)
          /\ targets' = a_targets
  /\ pc' = "done"
  /\ UNCHANGED <<method, a_targets, gaze_features, a_ix, gfeat_dist, alpha,
                 p_mask, n_mask, skipped, grad, encoder_calls, backward_calls,
                 err, cw, contrastive_input_pair, companionVars>>

\* ============================================================== train()
\* a float of a numpy column: NaN, or a number
NaN == [nan |-> TRUE, val |-> 0]
Num(x) == [nan |-> FALSE, val |-> x]
FAdd(x, y) == IF x.nan \/ y.nan THEN NaN ELSE Num(x.val + y.val)
FScale(k, x) == IF x.nan THEN NaN ELSE Num(k * x.val)

RECURSIVE Pow2(_)
Pow2(k) == IF k = 0 THEN 1 ELSE 2 * Pow2(k - 1)


\* the rows of a data panel with k subgroup columns: a binary target, and per
\* subgroup column 0, 1 or a missing value
Rows(k) == [target : 0..(NumClasses - 1), attrs : [1..k -> {Num(0), Num(1), NaN}]]

\* 2 ** (i + 1) for the code's column index i
ColumnWeight(i) == Pow2(i + 1)

\* lines 510-514: group_ids after the columns 0..k-1 have been added
RECURSIVE PackedGroup(_, _)
PackedGroup(row, k) ==
  IF k = 0 THEN Num(row.target)
  ELSE FAdd(PackedGroup(row, k - 1), FScale(ColumnWeight(k - 1), row.attrs[k]))

\* a wrong mask: a missing value leaves the group id at 0
NanToZero(g) == IF g.nan THEN 0 ELSE g.val

\* line 515 and .astype(int): group_ids[np.isnan(group_ids)] = -1
NanToMinusOne(g) == IF g.nan THEN -1 ELSE g.val

\* lines 508-515 and 532 for one row
GroupId(row, k) == NanToMinusOne(PackedGroup(row, k))

\* binary_strs[b]
BinaryStr(b) == IF b THEN "with" ELSE "without"

\* a wrong decoding: column ndx is read from bit ndx
ColumnBitAtNdx(i, ndx) == (i \div Pow2(ndx)) % 2

\* int(i / (2 ** (ndx + 1))) % 2
ColumnBit(i, ndx) == (i \div Pow2(ndx + 1)) % 2

\* lines 558-560: the name of group i, one word for the target and one per
\* subgroup column (the column names themselves are left out)
GroupName(i, k) ==
  <<BinaryStr((i % 2) # 0)>>
    \o [ndx \in 1..k |-> BinaryStr(ColumnBit(i, ndx - 1) # 0)]

TrainIdle ==
  /\ model = "None" /\ config = "None" /\ gaze_split = FALSE
  /\ subgroup_columns = 0 /\ dp = <<>> /\ group_ids = <<>>
  /\ group_str = <<>> /\ config_written = {} /\ model_built = FALSE
  /\ terr = "none" /\ tpc = "idle"

\* a call of train(): `model` and `config` both default to None.  A config that
\* is given is a well-formed one (multiclass off), and without a config its
\* settings do not exist.  The plain call (no model, a config with gaze_split
\* on) is followed on panels of up to MaxRows rows, the other calls on panels
\* of one row.
TrainInit ==
  /\ model \in {"None", "given"} /\ config \in {"None", "given"}
  /\ gaze_split \in BOOLEAN
  /\ config = "None" => ~gaze_split
  /\ subgroup_columns \in 0..MaxSubgroups
  /\ config = "None" => subgroup_columns = 0
  /\ \E n \in 1..MaxRows :
       /\ (model = "given" \/ config = "None" \/ ~gaze_split) => n = 1
       /\ dp \in [1..n -> Rows(subgroup_columns)]
  /\ group_ids = <<>> /\ group_str = <<>>
  /\ config_written = {} /\ model_built = FALSE
  /\ terr = "none" /\ tpc = "entry"

\* line 489: config["train"]["seed"] is read first; None is not subscriptable
SeedEverything ==
  /\ UNCHANGED notTrainVars
  /\ tpc = "entry"
  /\ IF config = "None"
     THEN tpc' = "raised" /\ terr' = "TypeError"
     ELSE tpc' = "start" /\ UNCHANGED terr
  /\ UNCHANGED <<model, config, gaze_split, subgroup_columns, dp, group_ids,
                 group_str, config_written, model_built>>

\* lines 508-515
ComputeGroupIds ==
  /\ UNCHANGED notTrainVars
  /\ tpc = "start"
  /\ group_ids' = [r \in DOMAIN dp |-> GroupId(dp[r], subgroup_columns)]
  /\ tpc' = "grouped"
  /\ UNCHANGED <<model, config, gaze_split, subgroup_columns, dp, group_str,
                 config_written, model_built, terr>>

\* lines 524-540: the panel is rebuilt.  gaze_features is bound at line 499
\* under gaze_split only, and line 534 reads it
BuildPanel ==
  /\ UNCHANGED notTrainVars
  /\ tpc = "grouped"
  /\ IF gaze_split
     THEN tpc' = "panel" /\ UNCHANGED terr
     ELSE tpc' = "raised" /\ terr' = "UnboundLocalError"
  /\ UNCHANGED <<model, config, gaze_split, subgroup_columns, dp, group_ids,
                 group_str, config_written, model_built>>

\* lines 555-561
NameGroups ==
  /\ UNCHANGED notTrainVars
  /\ tpc = "panel"
  /\ group_str' = [j \in 1..Pow2(subgroup_columns + 1) |->
                     GroupName(j - 1, subgroup_columns)]
  /\ tpc' = "named"
  /\ UNCHANGED <<model, config, gaze_split, subgroup_columns, dp, group_ids,
                 config_written, model_built, terr>>

\* lines 563-601: the dataset configs and the class weights are stored in the
\* caller's config
WriteConfig ==
  /\ UNCHANGED notTrainVars
  /\ tpc = "named"
  /\ config_written' = config_written
       \cup {"train_dataset_config", "val_dataset_config", "class_weights"}
  /\ tpc' = "configured"
  /\ UNCHANGED <<model, config, gaze_split, subgroup_columns, dp, group_ids,
                 group_str, model_built, terr>>

\* lines 603-604
CheckModelAndConfig ==
  /\ UNCHANGED notTrainVars
  /\ tpc = "configured"
  /\ IF model # "None" /\ config # "None"
     THEN tpc' = "raised" /\ terr' = "ValueError"
     ELSE tpc' = "checked" /\ UNCHANGED terr
  /\ UNCHANGED <<model, config, gaze_split, subgroup_columns, dp, group_ids,
                 group_str, config_written, model_built>>

\* lines 606-614: without a model one is built from the config
BuildModel ==
  /\ UNCHANGED notTrainVars
  /\ tpc = "checked"
  /\ IF model = "None"
     THEN /\ config_written' = config_written \cup {"num_classes"}
          /\ model_built' = TRUE
     ELSE UNCHANGED <<config_written, model_built>>
  /\ tpc' = "built"
  /\ UNCHANGED <<model, config, gaze_split, subgroup_columns, dp, group_ids,
                 group_str, terr>>

\* ===================================================== robust sampler

RECURSIVE RPow(_, _)
RPow(x, k) == IF k = 0 THEN RInt(1) ELSE RMul(x, RPow(x, k - 1))

\* (train_dp["group_id"] == group_i).sum()
GroupCount(col, g) == Cardinality({r \in DOMAIN col : col[r] = g})

\* a wrong weight: the frequent groups are the ones weighted up
GroupWeightByCount(col, g, a) ==
  RPow(RAdd(RInt(1), Rat(GroupCount(col, g), Len(col))), a)

\* lines 667-671: (1 + (len(train_dp) - count) / len(train_dp)) ** alpha
GroupWeight(col, g, a) ==
  RPow(RAdd(RInt(1), Rat(Len(col) - GroupCount(col, g), Len(col))), a)

\* lines 663-671: torch.ones, then the rows of each group 0..n_groups-1
SamplerWeights(col, k, a) ==
  [r \in DOMAIN col |->
     IF col[r] \in 0..(k - 1) THEN GroupWeight(col, col[r], a) ELSE RInt(1)]

\* the example of the specification: groups of 90 and 10 rows
NinetyTen == [r \in 1..100 |-> IF r <= 90 THEN 0 ELSE 3]

SamplerIdle ==
  /\ n_groups = 0 /\ train_group_id = <<>> /\ reweight_class_alpha = 0
  /\ weights = <<>> /\ spc = "idle"

\* train() at line 662 with robust_sampler on: the group ids are -1 (a missing
\* attribute) or a group 0..n_groups-1
SamplerInit ==
  /\ \E k \in 0..MaxSubgroups : n_groups = Pow2(k + 1)
  /\ \/ \E n \in 1..MaxTrain : train_group_id \in [1..n -> -1..(n_groups - 1)]
     \/ n_groups = 4 /\ train_group_id = NinetyTen
  /\ reweight_class_alpha \in 0..MaxAlpha
  /\ weights = <<>>
  /\ spc = "start"

\* lines 662-676
RobustSampler ==
  /\ UNCHANGED notSamplerVars
  /\ spc = "start"
  /\ weights' = SamplerWeights(train_group_id, n_groups, reweight_class_alpha)
  /\ spc' = "weighted"
  /\ UNCHANGED <<n_groups, train_group_id, reweight_class_alpha>>

\* ============================================================== cnc.py

\* dp[dp["group_id"].data == g], as the rows it keeps
RowsOfGroup(col, g) == {r \in DOMAIN col : col[r] = g}

\* a wrong stratum: the positives of group-0 anchors are taken from group 1
PositiveEntries0Swapped(col) == RowsOfGroup(col, 1)

\* a wrong stratum: the negatives of group-3 anchors are taken from group 3
NegativeEntries3FromMajority(col) == RowsOfGroup(col, 3)

\* lines 27-30
PositiveEntries0(col) == RowsOfGroup(col, 2)
NegativeEntries0(col) == RowsOfGroup(col, 1)
PositiveEntries3(col) == RowsOfGroup(col, 1)
NegativeEntries3(col) == RowsOfGroup(col, 2)

\* lines 33-34: the rows of group 0 or 3, in the panel's order
RECURSIVE MajorityRows(_, _)
MajorityRows(col, r) ==
  IF r > Len(col) THEN <<>>
  ELSE (IF col[r] = 0 \/ col[r] = 3 THEN <<r>> ELSE <<>>)
         \o MajorityRows(col, r + 1)

\* np.random.choice(entries, k): k draws with replacement
Choices(entries, k) == [1..k -> entries]

CncIdle ==
  /\ cnc_group_id = <<>> /\ num_p = 0 /\ num_n = 0
  /\ positive_entries_0 = {} /\ negative_entries_0 = {}
  /\ positive_entries_3 = {} /\ negative_entries_3 = {}
  /\ contrastive_dp = <<>> /\ anchor = 0
  /\ positive_entry = <<>> /\ negative_entry = <<>>
  /\ cerr = "none" /\ cpc = "idle"

\* train() at line 683: the training panel and the cnc_config
CncInit ==
  /\ \E n \in 1..MaxCncRows : cnc_group_id \in [1..n -> -1..MaxGroupId]
  /\ num_p \in 1..MaxNum /\ num_n \in 1..MaxNum
  /\ positive_entries_0 = {} /\ negative_entries_0 = {}
  /\ positive_entries_3 = {} /\ negative_entries_3 = {}
  /\ contrastive_dp = <<>> /\ anchor = 0
  /\ positive_entry = <<>> /\ negative_entry = <<>>
  /\ cerr = "none" /\ cpc = "start"

\* load_contrastive_dp, lines 27-52: the lambda column is lazy, no tuple is
\* built here
LoadContrastiveDp ==
  /\ UNCHANGED notCncVars
  /\ cpc = "start"
  /\ positive_entries_0' = PositiveEntries0(cnc_group_id)
  /\ negative_entries_0' = NegativeEntries0(cnc_group_id)
  /\ positive_entries_3' = PositiveEntries3(cnc_group_id)
  /\ negative_entries_3' = NegativeEntries3(cnc_group_id)
  /\ contrastive_dp' = MajorityRows(cnc_group_id, 1)
  /\ cpc' = "loaded"
  /\ UNCHANGED <<cnc_group_id, num_p, num_n, anchor, positive_entry,
                 negative_entry, cerr>>

\* contrastive_loader, lines 55-67, for a row of contrastive_dp read through the
\* "contrastive_pair" column.  np.random.choice raises ValueError on an empty
\* stratum.
ContrastiveLoader ==
  /\ UNCHANGED notCncVars
  /\ cpc = "loaded" /\ cerr = "none"
  /\ \E k \in DOMAIN contrastive_dp :
       LET a == contrastive_dp[k]
           anchor_group_id == cnc_group_id[a]
           pos == IF anchor_group_id = 0 THEN positive_entries_0
                  ELSE positive_entries_3
           neg == IF anchor_group_id = 0 THEN negative_entries_0
                  ELSE negative_entries_3
       IN /\ anchor' = a
          /\ IF pos = {} \/ neg = {}
             THEN /\ cerr' = "ValueError"
                  /\ positive_entry' = <<>> /\ negative_entry' = <<>>
             ELSE /\ positive_entry' \in Choices(pos, num_p)
                  /\ negative_entry' \in Choices(neg, num_n)
                  /\ UNCHANGED cerr
  /\ UNCHANGED <<cnc_group_id, num_p, num_n, positive_entries_0,
                 negative_entries_0, positive_entries_3, negative_entries_3,
                 contrastive_dp, cpc>>

\* ========================================== SupervisedContrastiveLoss

\* torch.div(x, t) on floats: no exception, a division by zero gives an
\* infinity or NaN.  x is an integer, t is in units of 1 / TempDen.
TorchDiv(x, t) ==
  IF t = 0
  THEN (IF x > 0 THEN "inf" ELSE IF x < 0 THEN "-inf" ELSE "nan")
  ELSE IF t > 0 THEN <<x * TempDen, t>> ELSE <<-(x * TempDen), -t>>

\* Exact values of the loss arithmetic.  For a temperature T # 0 put
\* q = exp(1 / |T|): exp(sim / T) is a power of q, and sums and products of
\* such powers are polynomials in q and 1/q with integer coefficients, held as
\* functions from the exponents -PolyDeg..PolyDeg to the coefficients.
PolyDeg == 2 * MaxCompanions
PolyExps == (-PolyDeg)..PolyDeg
PolyZero == [e \in PolyExps |-> 0]
PolyMono(k) == [e \in PolyExps |-> IF e = k THEN 1 ELSE 0]
PolyAdd(a, b) == [e \in PolyExps |-> a[e] + b[e]]
PolyMul(a, b) ==
  [e \in PolyExps |->
     SumSeq([k \in 1..(2 * PolyDeg + 1) |->
               LET i == k - PolyDeg - 1
               IN IF e - i \in PolyExps THEN a[i] * b[e - i] ELSE 0])]

\* a float: a finite value (a polynomial in q), +inf or NaN
Fin(a) == [k |-> "fin", p |-> a]
Inf == [k |-> "inf", p |-> PolyZero]
NaNValue == [k |-> "nan", p |-> PolyZero]

\* torch.exp(torch.div(x, t)) for a similarity x of -1, 0 or 1: a division by
\* zero gives exp(inf) = inf, exp(-inf) = 0 or exp(nan) = nan
ExpDiv(x, t) ==
  IF t = 0
  THEN (IF x > 0 THEN Inf ELSE IF x < 0 THEN Fin(PolyZero) ELSE NaNValue)
  ELSE Fin(PolyMono(IF t > 0 THEN x ELSE -x))

\* a + b on floats
FloatAdd(a, b) ==
  IF a.k = "nan" \/ b.k = "nan" THEN NaNValue
  ELSE IF a.k = "inf" \/ b.k = "inf" THEN Inf
  ELSE Fin(PolyAdd(a.p, b.p))

\* a wrong sum: only the first negative is counted
NegExpFirst(neg_exp) == neg_exp[1]

\* neg_exp.sum(0, keepdim=True)
RECURSIVE NegExpSum(_)
NegExpSum(neg_exp) ==
  IF Len(neg_exp) = 1 THEN neg_exp[1]
  ELSE FloatAdd(NegExpSum(SubSeq(neg_exp, 1, Len(neg_exp) - 1)),
                neg_exp[Len(neg_exp)])

\* the logarithm of a quotient of two positive values, -inf, +inf or NaN
LogOf(n, d) == [k |-> "fin", num |-> n, den |-> d]
LogInf(sign) == [k |-> sign, num |-> PolyZero, den |-> PolyZero]

\* -1 * (torch.log(pos_exp) - torch.log(pos_exp + neg_exp_sum)), line 135-137,
\* for one positive
NegLogProb(pe, neg_exp_sum) ==
  LET d == FloatAdd(pe, neg_exp_sum) IN
  IF pe.k = "nan" \/ d.k = "nan" THEN LogInf("nan")
  ELSE IF pe.k = "inf" THEN LogInf("nan")              \* inf - inf
  ELSE IF pe.p = PolyZero
  THEN (IF d.k = "fin" /\ d.p = PolyZero
        THEN LogInf("nan")                              \* -inf - (-inf)
        ELSE LogInf("inf"))                             \* -(-inf - finite)
  ELSE IF d.k = "inf" THEN LogInf("inf")               \* -(finite - inf)
  ELSE LogOf(d.p, pe.p)

\* the sum of two such terms: log a + log b = log (a * b)
LogAdd(a, b) ==
  IF a.k = "nan" \/ b.k = "nan" THEN LogInf("nan")
  ELSE IF a.k = "inf" \/ b.k = "inf" THEN LogInf("inf")
  ELSE LogOf(PolyMul(a.num, b.num), PolyMul(a.den, b.den))

RECURSIVE LogSum(_)
LogSum(terms) ==
  IF Len(terms) = 1 THEN terms[1]
  ELSE LogAdd(LogSum(SubSeq(terms, 1, Len(terms) - 1)), terms[Len(terms)])

\* lines 128-139 on the similarities: loss.mean() is the sum of the
\* per-positive terms over their number n
SupConLoss(ps, ns, t) ==
  LET pos_exp == [i \in DOMAIN ps |-> ExpDiv(ps[i], t)]
      neg_exp == [j \in DOMAIN ns |-> ExpDiv(ns[j], t)]
      neg_exp_sum == NegExpSum(neg_exp)
      terms == [i \in DOMAIN ps |-> NegLogProb(pos_exp[i], neg_exp_sum)]
  IN [n |-> Len(ps), sum |-> LogSum(terms)]

NoLoss == [n |-> 0, sum |-> LogInf("nan")]

LossIdle ==
  /\ temperature = 0 /\ constructed = FALSE
  /\ sim_pos = <<>> /\ sim_neg = <<>> /\ pos_logit = <<>> /\ neg_logit = <<>>
  /\ loss_mean = NoLoss
  /\ lerr = "none" /\ lpc = "idle"

\* a contrastive_config, before the loss object is built from it
LossInit ==
  /\ temperature \in -MaxTemp..MaxTemp
  /\ constructed = FALSE
  /\ sim_pos = <<>> /\ sim_neg = <<>> /\ pos_logit = <<>> /\ neg_logit = <<>>
  /\ loss_mean = NoLoss
  /\ lerr = "none" /\ lpc = "config"

\* SupervisedContrastiveLoss.__init__, lines 113-117: the temperature is stored
\* as given
Construct ==
  /\ UNCHANGED notLossVars
  /\ lpc = "config"
  /\ constructed' = TRUE
  /\ lpc' = "ready"
  /\ UNCHANGED <<temperature, sim_pos, sim_neg, pos_logit, neg_logit,
                 loss_mean, lerr>>

\* forward(encoder, contrastive_batch), lines 119-139, called as its signature
\* says, on embeddings whose cosine similarities to the anchor are -1, 0 or 1.
\* forward changes nothing of the object, so one call of it is followed.
ForwardCall ==
  /\ UNCHANGED notLossVars
  /\ lpc = "ready" /\ constructed
  /\ \E np \in 1..MaxCompanions, nn \in 1..MaxCompanions :
       \E ps \in [1..np -> -1..1], ns \in [1..nn -> -1..1] :
          LET r == Forward([kind |-> "module", len |-> 1],
                           [kind |-> "tuple", len |-> 3])
          IN /\ lerr' = r.raised
             /\ sim_pos' = ps /\ sim_neg' = ns
             /\ IF r.raised = "none"
                THEN /\ pos_logit' = [i \in 1..np |-> TorchDiv(ps[i], temperature)]
                     /\ neg_logit' = [i \in 1..nn |-> TorchDiv(ns[i], temperature)]
                     /\ loss_mean' = SupConLoss(ps, ns, temperature)
                ELSE /\ pos_logit' = <<>> /\ neg_logit' = <<>>
                     /\ loss_mean' = NoLoss
  /\ lpc' = "computed"
  /\ UNCHANGED <<temperature, constructed>>

\* ========================================================= specifications
vars == <<stepVars, trainVars, samplerVars, cncVars, lossVars>>

\* one training step
Init == StepInit /\ TrainIdle /\ SamplerIdle /\ CncIdle /\ LossIdle
Next ==
  \/ SelectCnc
  \/ SelectGaze
  \/ SelectRandcon
  \/ SkipAnchor
  \/ Contrast
  \/ FinishStep
Spec == Init /\ [][Next]_vars

\* train(): group ids and group names
InitTrain == TrainInit /\ StepIdle /\ SamplerIdle /\ CncIdle /\ LossIdle
NextTrain ==
  \/ SeedEverything
  \/ ComputeGroupIds
  \/ BuildPanel
  \/ NameGroups
  \/ WriteConfig
  \/ CheckModelAndConfig
  \/ BuildModel
SpecTrain == InitTrain /\ [][NextTrain]_vars

\* train(): the robust sampler
InitSampler == SamplerInit /\ StepIdle /\ TrainIdle /\ CncIdle /\ LossIdle
NextSampler == RobustSampler
SpecSampler == InitSampler /\ [][NextSampler]_vars

\* load_contrastive_dp and contrastive_loader
InitCnC == CncInit /\ StepIdle /\ TrainIdle /\ SamplerIdle /\ LossIdle
NextCnC == LoadContrastiveDp \/ ContrastiveLoader
SpecCnC == InitCnC /\ [][NextCnC]_vars

\* SupervisedContrastiveLoss
InitLoss == LossInit /\ StepIdle /\ TrainIdle /\ SamplerIdle /\ CncIdle
NextLoss == Construct \/ ForwardCall
SpecLoss == InitLoss /\ [][NextLoss]_vars

\* =================================================================== claims
\* ------------------------------------------- training step (checked in Spec)
\* an anchor's companions have been selected and not yet been cleared
Selected == pc \in {"selected", "raised"}

\* the feature position of example i
Position(i) == gaze_features[i][1]

AbsDiff(x, y) == IF x >= y THEN x - y ELSE y - x

\* the examples of the mini-batch with the anchor's label
SameLabel == {i \in DOMAIN a_targets : a_targets[i] = a_targets[a_ix]}

\* x is a median of the values d[i], i in S: at most half of them lie below it
\* and at most half of them above it
IsMedianOf(x, d, S) ==
  /\ 2 * Cardinality({i \in S : d[i] < x}) <= Cardinality(S)
  /\ 2 * Cardinality({i \in S : d[i] > x}) <= Cardinality(S)

\* x is the value of rank (n - 1) div 2 among the n values of d, counted from 0:
\* the lower of the two middle values when n is even
IsLowerMedianOf(x, d) ==
  LET k == (Len(d) - 1) \div 2 IN
  /\ \E i \in DOMAIN d : d[i] = x
  /\ Cardinality({i \in DOMAIN d : d[i] < x}) <= k
  /\ Cardinality({i \in DOMAIN d : d[i] <= x}) >= k + 1

\* the two sets of the feature-proximity policy, as the claims state them
NegativesAsClaimed == {i \in SameLabel : gfeat_dist[i] > alpha}
PositivesAsClaimed == {i \in SameLabel : gfeat_dist[i] <= alpha} \ {a_ix}

\* C4 (as claimed): under cnc_gaze the threshold alpha of every anchor is the
\* median of the distances from the anchor to the other mini-batch examples that
\* share its label, the negative set is the same-label examples farther than
\* alpha and the positive set the same-label examples within alpha, the anchor
\* left out.
C4_AlphaIsSameLabelMedian ==
  (Selected /\ method = "cnc_gaze" /\ SameLabel \ {a_ix} # {}) =>
     /\ IsMedianOf(alpha, gfeat_dist, SameLabel \ {a_ix})
     /\ n_mask = NegativesAsClaimed
     /\ p_mask = PositivesAsClaimed

\* C4 (amended): under cnc_gaze the distances are the Euclidean distances from
\* the anchor to every example of the mini-batch, alpha is their lower median
\* (over all examples: the anchor itself and the examples of the other label
\* count), and the two sets are as claimed.
C4_AlphaIsBatchLowerMedian ==
  (Selected /\ method = "cnc_gaze") =>
     /\ DOMAIN gfeat_dist = DOMAIN a_targets
     /\ \A i \in DOMAIN a_targets :
          gfeat_dist[i] = AbsDiff(Position(i), Position(a_ix))
     /\ IsLowerMedianOf(alpha, gfeat_dist)
     /\ n_mask = NegativesAsClaimed
     /\ p_mask = PositivesAsClaimed

\* C4 witness: an anchor whose mini-batch holds an example of the other label
\* and which has both a positive and a negative companion
C4_Witness ==
  /\ pc = "selected" /\ method = "cnc_gaze"
  /\ SameLabel # DOMAIN a_targets
  /\ p_mask # {} /\ n_mask # {}

\* the case of C5: four same-label examples whose distances from the anchor are
\* 0 (the anchor itself), 1, 2 and 3
C5_Case ==
  /\ Selected /\ method = "cnc_gaze"
  /\ Len(a_targets) = 4 /\ SameLabel = 1..4
  /\ gfeat_dist[a_ix] = 0
  /\ {gfeat_dist[i] : i \in (1..4) \ {a_ix}} = {1, 2, 3}

\* C5 (as claimed): in that case alpha = 1.5, the negatives are the examples at
\* distances 2 and 3 and the positives those within 1.5, the anchor left out.
C5_AlphaIsOneAndAHalf ==
  C5_Case =>
     /\ 2 * alpha = 3
     /\ n_mask = {i \in 1..4 : gfeat_dist[i] \in {2, 3}}
     /\ p_mask = {i \in 1..4 : 2 * gfeat_dist[i] <= 3} \ {a_ix}

\* C5 (amended): in that case alpha = 1, the negatives are the examples at
\* distances 2 and 3 and the only positive is the example at distance 1.
C5_AlphaIsOne ==
  C5_Case =>
     /\ alpha = 1
     /\ n_mask = {i \in 1..4 : gfeat_dist[i] \in {2, 3}}
     /\ p_mask = {i \in 1..4 : gfeat_dist[i] = 1}

\* C5 witness: the case, for the anchor at distance 0 of the example batch
C5_Witness == C5_Case /\ pc = "selected" /\ Cardinality(n_mask) = 2

\* C6: under cnc_gaze and randcon an anchor with fewer than 2 positives or fewer
\* than 2 negatives is skipped (the loop moves to the next anchor, nothing is
\* raised, no encoder call, no backward pass, the running sums and the
\* accumulated gradient stay as they are); an anchor with at least 2 of each is
\* not skipped: the step goes on to the loss engine.
C6_SkipStep ==
  (pc = "selected" /\ method \in {"cnc_gaze", "randcon"}) =>
     IF Cardinality(p_mask) < 2 \/ Cardinality(n_mask) < 2
     THEN /\ pc' = "loop" /\ a_ix' = a_ix + 1 /\ err' = "none"
          /\ skipped' = skipped \cup {a_ix}
          /\ encoder_calls' = encoder_calls
          /\ backward_calls' = backward_calls
          /\ contrastive_loss' = contrastive_loss
          /\ pos_sim' = pos_sim /\ neg_sim' = neg_sim
          /\ grad' = grad
     ELSE /\ skipped' = skipped
          /\ \/ pc' = "raised"
             \/ encoder_calls' > encoder_calls

C6_SkipsExactlyTheInsufficient == [][C6_SkipStep]_vars

\* C6 witness: an anchor was skipped, the loop went on, and a later anchor with
\* at least 2 positives and 2 negatives reached the loss engine
C6_Witness ==
  /\ skipped # {} /\ a_ix \notin skipped
  /\ pc = "raised"
  /\ method \in {"cnc_gaze", "randcon"}
  /\ Cardinality(p_mask) >= 2 /\ Cardinality(n_mask) >= 2

\* the anchors the loop has taken to the loss engine
Contrasted == {i \in DOMAIN a_targets : i <= a_ix /\ i \notin skipped}

\* C7 (as claimed): when the per-anchor loop is over, the gradient it has
\* accumulated is that of the combined contrastive term cw * mean of the anchor
\* losses: every anchor loss the loop computed enters with the coefficient
\* cw / (number of anchors).
C7_AccumulatedIsCombinedGradient ==
  pc \in {"done", "raised"} =>
     \A i \in Contrasted : grad[i] * Len(a_targets) * CwDen = cw

AllTupleInputs ==
  Range(AInputs(a_targets))
    \cup UNION {Range(contrastive_input_pair.all_p_inputs[i]) : i \in DOMAIN a_targets}
    \cup UNION {Range(contrastive_input_pair.all_n_inputs[i]) : i \in DOMAIN a_targets}

\* the label of an input of the mini-batch
LabelOf(x) ==
  IF x[1] = "a" THEN a_targets[x[2]]
  ELSE IF x[1] = "p" THEN contrastive_input_pair.all_p_targets[x[2]][x[3]]
  ELSE contrastive_input_pair.all_n_targets[x[2]][x[3]]

\* C15 (as claimed): a CnC training step runs the classification pass, over the
\* anchors and the positives and negatives of every anchor's tuple, each input
\* once, with the i-th target the label of the i-th input; a cnc_gaze or
\* randcon step that returns has run it over the anchors only.
C15_ClassifiesEveryTuple ==
  /\ (method = "cnc" /\ pc \in {"done", "raised"}) =>
        /\ pc = "done"
        /\ Range(inputs) = AllTupleInputs
        /\ Len(inputs) = Cardinality(AllTupleInputs)
        /\ Len(targets) = Len(inputs)
        /\ \A k \in DOMAIN inputs : targets[k] = LabelOf(inputs[k])
  /\ (method \in {"cnc_gaze", "randcon"} /\ pc = "done") =>
        /\ inputs = AInputs(a_targets)
        /\ targets = a_targets

\* C16 (as claimed): the loss call of every non-skipped anchor completes, so a
\* step ends with no exception; the loop has made one backward pass per
\* non-skipped anchor it has left, and a step that returns has divided the
\* three sums by the number of anchors.
C16_LossCallCompletes ==
  /\ err = "none" /\ pc # "raised"
  /\ pc = "loop" =>
        backward_calls = Cardinality({i \in 1..(a_ix - 1) : i \notin skipped})
  /\ pc = "done" =>
        /\ backward_calls = Len(a_targets) - Cardinality(skipped)
        /\ contrastive_loss.den = Len(a_targets)
        /\ pos_sim.den = Len(a_targets)
        /\ neg_sim.den = Len(a_targets)

\* C17 (as claimed): under cnc_gaze and randcon the anchor is in neither its
\* positive nor its negative set, and the two sets are disjoint.
C17_AnchorIsNoCompanion ==
  (Selected /\ method \in {"cnc_gaze", "randcon"}) =>
     /\ a_ix \notin p_mask
     /\ a_ix \notin n_mask
     /\ p_mask \cap n_mask = {}

\* ------------------------------------------------ train() (SpecTrain)
\* the row has a missing subgroup attribute
HasMissing(row) == \E i \in DOMAIN row.attrs : row.attrs[i].nan

\* target + sum over the columns i (counted from 0) of 2^(i+1) * attribute i
PackedAsClaimed(row) ==
  row.target + SumSeq([i \in DOMAIN row.attrs |-> Pow2(i) * row.attrs[i].val])

\* C2: once train() has computed the group ids, every row without a missing
\* subgroup attribute has group_id = target + sum_i 2^(i+1) * attribute_i and
\* every row with a missing subgroup attribute has group_id = -1.
C2_GroupIdIsBitPacked ==
  tpc \in {"grouped", "named"} =>
     /\ DOMAIN group_ids = DOMAIN dp
     /\ \A r \in DOMAIN dp :
          IF HasMissing(dp[r]) THEN group_ids[r] = -1
          ELSE group_ids[r] = PackedAsClaimed(dp[r])

\* C2 witness: a data panel with a row that misses an attribute and a row whose
\* attributes are all present and not all 0
C2_Witness ==
  /\ tpc = "grouped"
  /\ \E r \in DOMAIN dp : HasMissing(dp[r]) /\ group_ids[r] = -1
  /\ \E r \in DOMAIN dp : ~HasMissing(dp[r]) /\ group_ids[r] >= 2

\* the words a row's target and attributes spell
RowWords(row) ==
  <<BinaryStr(row.target = 1)>>
    \o [i \in DOMAIN row.attrs |-> BinaryStr(row.attrs[i].val = 1)]

\* C3: for every row with group_id >= 0, the name built for its group decodes
\* to the row's own target and attribute bits, and two rows with the same
\* group_id >= 0 have the same target and attributes.
C3_DecodeRecoversInputs ==
  tpc = "named" =>
     /\ \A r \in DOMAIN dp :
          group_ids[r] >= 0 =>
             /\ group_ids[r] + 1 \in DOMAIN group_str
             /\ group_str[group_ids[r] + 1] = RowWords(dp[r])
     /\ \A r1, r2 \in DOMAIN dp :
          (group_ids[r1] >= 0 /\ group_ids[r1] = group_ids[r2]) => dp[r1] = dp[r2]

\* C3 witness: two rows of different groups, one of them with the last subgroup
\* attribute set, under at least two subgroup columns
C3_Witness ==
  /\ tpc = "named" /\ subgroup_columns >= 2
  /\ \E r1, r2 \in DOMAIN dp :
       /\ group_ids[r1] >= Pow2(subgroup_columns)
       /\ group_ids[r2] >= 0 /\ group_ids[r2] # group_ids[r1]

\* C11 (as claimed): a call of train() with both a model and a config fails with
\* ValueError at once: no group id has been computed, no group named, nothing
\* written into the config and no model built at any point of the call, it ends
\* with no other exception, and it never gets past the check.
C11_BothArgumentsFailAtOnce ==
  (model = "given" /\ config = "given") =>
     /\ group_ids = <<>> /\ group_str = <<>>
     /\ config_written = {}
     /\ ~model_built
     /\ terr \in {"none", "ValueError"}
     /\ tpc \notin {"checked", "built"}

\* -------------------------------------------- robust sampler (SpecSampler)
RECURSIVE Gcd(_, _)
Gcd(x, y) == IF y = 0 THEN x ELSE Gcd(y, x % y)

\* a positive rational in lowest terms
Reduced(q) == LET g == Gcd(q.num, q.den) IN Rat(q.num \div g, q.den \div g)

RECURSIVE IPow(_, _)
IPow(x, k) == IF k = 0 THEN 1 ELSE x * IPow(x, k - 1)

\* the number of training rows of group g
CountOf(g) == Cardinality({r \in DOMAIN train_group_id : train_group_id[r] = g})

\* (1 + (N - count(g)) / N) ** alpha = ((2N - count(g)) / N) ** alpha
WeightAsClaimed(g) ==
  LET N == Len(train_group_id)
      base == Reduced(Rat(2 * N - CountOf(g), N))
  IN Rat(IPow(base.num, reweight_class_alpha), IPow(base.den, reweight_class_alpha))

\* the rows that belong to a group
Grouped == {r \in DOMAIN train_group_id : train_group_id[r] \in 0..(n_groups - 1)}

\* C9: with the robust sampler on, every training row of a group g has the
\* weight (1 + (N - count(g)) / N) ** alpha; for alpha > 0 a row of a strictly
\* rarer group has a strictly higher weight; and for groups of 90 and 10 rows
\* with alpha = 1 the weights are 1.1 and 1.9.
C9_RobustWeights ==
  spc = "weighted" =>
     /\ DOMAIN weights = DOMAIN train_group_id
     /\ \A r \in Grouped :
          Reduced(weights[r]) = WeightAsClaimed(train_group_id[r])
     /\ \A r1, r2 \in Grouped :
          (reweight_class_alpha > 0
             /\ CountOf(train_group_id[r1]) < CountOf(train_group_id[r2]))
          => RLess(Reduced(weights[r2]), Reduced(weights[r1]))
     /\ (train_group_id = NinetyTen /\ reweight_class_alpha = 1) =>
          \A r \in 1..100 :
             Reduced(weights[r]) = IF r <= 90 THEN Rat(11, 10) ELSE Rat(19, 10)

\* C9 witness: the weights of the 90/10 example under alpha = 1
C9_Witness ==
  spc = "weighted" /\ train_group_id = NinetyTen /\ reweight_class_alpha = 1

\* --------------------------------------------------- cnc.py (SpecCnC)
\* C1: whenever contrastive_loader has built a tuple for an anchor, an anchor
\* of group 0 has all its positives in group 2 and all its negatives in group
\* 1, and an anchor of group 3 has all its positives in group 1 and all its
\* negatives in group 2.
C1_CompanionGroups ==
  (cpc = "loaded" /\ anchor # 0 /\ cerr = "none") =>
     /\ Len(positive_entry) = num_p /\ Len(negative_entry) = num_n
     /\ cnc_group_id[anchor] = 0 =>
          /\ \A i \in DOMAIN positive_entry : cnc_group_id[positive_entry[i]] = 2
          /\ \A i \in DOMAIN negative_entry : cnc_group_id[negative_entry[i]] = 1
     /\ cnc_group_id[anchor] = 3 =>
          /\ \A i \in DOMAIN positive_entry : cnc_group_id[positive_entry[i]] = 1
          /\ \A i \in DOMAIN negative_entry : cnc_group_id[negative_entry[i]] = 2

\* C1 witness: a tuple built for an anchor of group 3 in a panel that also has
\* an anchor of group 0
C1_Witness ==
  /\ cpc = "loaded" /\ anchor # 0 /\ cerr = "none"
  /\ cnc_group_id[anchor] = 3
  /\ \E r \in DOMAIN cnc_group_id : cnc_group_id[r] = 0
  /\ Len(positive_entry) = 2

\* the rows whose group_id is none of 0, 1, 2, 3
InvalidRows == {r \in DOMAIN cnc_group_id : cnc_group_id[r] \notin 0..3}

\* C12 (as claimed): load_contrastive_dp does not complete on a panel that holds
\* a row whose group_id is outside {0, 1, 2, 3} (it fails instead of leaving
\* the row out), and contrastive_loader returns no tuple for an anchor whose
\* group_id is not 0 or 3.
C12_InvalidGroupIdIsFatal ==
  /\ cpc = "loaded" => InvalidRows = {}
  /\ (cpc = "loaded" /\ anchor # 0 /\ cerr = "none") =>
        cnc_group_id[anchor] \in {0, 3}

\* the four strata views, and the majority subset as a set of rows
Strata == <<positive_entries_0, negative_entries_0,
            positive_entries_3, negative_entries_3>>
Majority == Range(contrastive_dp)

\* C13 (as claimed): the four strata views of load_contrastive_dp are pairwise
\* disjoint, and each is disjoint from the majority (anchor) subset.
C13_StrataPairwiseDisjoint ==
  cpc = "loaded" =>
     /\ \A i, j \in 1..4 : i # j => Strata[i] \cap Strata[j] = {}
     /\ \A i \in 1..4 : Strata[i] \cap Majority = {}

\* C13 (amended): the views coincide in pairs (the positive source of group-0
\* anchors and the negative source of group-3 anchors are both the rows of
\* group 2, the negative source of group-0 anchors and the positive source of
\* group-3 anchors both the rows of group 1); the positive and the negative
\* source of one anchor group are disjoint, and every view is disjoint from the
\* majority subset, the rows of group 0 or 3.
C13_StrataCoincideInPairs ==
  cpc = "loaded" =>
     /\ positive_entries_0 = negative_entries_3
     /\ negative_entries_0 = positive_entries_3
     /\ positive_entries_0 = {r \in DOMAIN cnc_group_id : cnc_group_id[r] = 2}
     /\ negative_entries_0 = {r \in DOMAIN cnc_group_id : cnc_group_id[r] = 1}
     /\ positive_entries_0 \cap negative_entries_0 = {}
     /\ positive_entries_3 \cap negative_entries_3 = {}
     /\ Majority = {r \in DOMAIN cnc_group_id : cnc_group_id[r] \in {0, 3}}
     /\ \A i \in 1..4 : Strata[i] \cap Majority = {}

\* C13 witness: a loaded panel with rows of both minority groups and of both
\* majority groups
C13_Witness ==
  /\ cpc = "loaded"
  /\ positive_entries_0 # {} /\ negative_entries_0 # {}
  /\ \E r1, r2 \in Majority : cnc_group_id[r1] = 0 /\ cnc_group_id[r2] = 3

\* ------------------------------- SupervisedContrastiveLoss (SpecLoss)
\* C10: no SupervisedContrastiveLoss object has a temperature <= 0 (its
\* construction fails), and no forward call divides by such a temperature.
C10_TemperatureIsPositive ==
  /\ constructed => temperature > 0
  /\ (lpc = "computed" /\ lerr = "none") => temperature > 0

\* the orders a batch of n embeddings can be given in
Perms(n) == {f \in [1..n -> 1..n] : \A i, j \in 1..n : f[i] = f[j] => i = j}

\* two losses are the same number (or the same non-finite outcome)
SameLoss(a, b) ==
  /\ a.n = b.n
  /\ a.sum.k = b.sum.k
  /\ a.sum.k = "fin" =>
       PolyMul(a.sum.num, b.sum.den) = PolyMul(b.sum.num, a.sum.den)

\* C14: for a fixed anchor and temperature, the loss forward returns is the
\* loss of every reordering of the positives and of every reordering of the
\* negatives.
C14_LossIgnoresOrder ==
  (lpc = "computed" /\ lerr = "none") =>
     /\ \A f \in Perms(Len(sim_pos)) :
          SameLoss(loss_mean,
                   SupConLoss([i \in DOMAIN sim_pos |-> sim_pos[f[i]]],
                              sim_neg, temperature))
     /\ \A g \in Perms(Len(sim_neg)) :
          SameLoss(loss_mean,
                   SupConLoss(sim_pos,
                              [j \in DOMAIN sim_neg |-> sim_neg[g[j]]],
                              temperature))

\* C14 witness: a loss computed at a positive temperature from positives of
\* different similarities and negatives of different similarities
C14_Witness ==
  /\ lpc = "computed" /\ lerr = "none" /\ temperature > 0
  /\ Len(sim_pos) >= 2 /\ sim_pos[1] # sim_pos[2]
  /\ Len(sim_neg) >= 2 /\ sim_neg[1] # sim_neg[2]
  /\ loss_mean.sum.k = "fin"

====
